---- MODULE Spec2Model ----
(***************************************************************************)
(* Model of DcpmemPkg/driver/Utils/Interleave.c: the interleave-set        *)
(* matching engine (INTERLEAVE_SETS, GetDimmsFromListMatchingInterleaveSet,*)
(* FindBestInterleavingForDimms, RemoveDimmFromList,                       *)
(* RemoveDimmArrayFromList) and the loop of                                *)
(* PerformInterleavingAndCreateGoal.                                       *)
(*                                                                         *)
(* C arrays are modelled as sequences holding the part of the array the    *)
(* code has written; C index i is sequence index i+1.  A DIMM pointer is   *)
(* modelled by the record of the two fields the code reads through it.     *)
(* UINT64 values are kept at their width as four base-2^16 limbs, least    *)
(* significant first.                                                      *)
(***************************************************************************)
EXTENDS Integers, Sequences, FiniteSets, TLC

\* ------------------------------------------------------------------ bounds
MaxImcId == 2
MaxChannelId == 3
MaxDimms == 6
MaxExtraDimms == 1
ExistingGoalsNum == 1
MaxListLen == 3
MaxArrayLen == 2

\* --------------------------------------------------------------- constants
CHANNELS_PER_IMC == 3
END_OF_INTERLEAVE_SETS == 0

\* the table with the x6 entry after the x4 entries
INTERLEAVE_SETS_x4First ==
  << 15, 60, 51,
     63,
     21, 42,
     3, 12, 48,
     5, 10, 20, 40, 17, 34,
     1, 2, 4, 8, 16, 32,
     END_OF_INTERLEAVE_SETS >>

\* the table without its entry 0x08
INTERLEAVE_SETS_Without0x08 ==
  << 63,
     15, 60, 51,
     21, 42,
     3, 12, 48,
     5, 10, 20, 40, 17, 34,
     1, 2, 4, 16, 32,
     END_OF_INTERLEAVE_SETS >>

\* the table without its last 1-way entry 0x20
INTERLEAVE_SETS_Without0x20 ==
  << 63,
     15, 60, 51,
     21, 42,
     3, 12, 48,
     5, 10, 20, 40, 17, 34,
     1, 2, 4, 8, 16,
     END_OF_INTERLEAVE_SETS >>

\* the table with a 5-way entry 0x1F after the x6 entry
INTERLEAVE_SETS_With0x1F ==
  << 63,
     31,
     15, 60, 51,
     21, 42,
     3, 12, 48,
     5, 10, 20, 40, 17, 34,
     1, 2, 4, 8, 16, 32,
     END_OF_INTERLEAVE_SETS >>

INTERLEAVE_SETS ==
  << 63,
     15, 60, 51,
     21, 42,
     3, 12, 48,
     5, 10, 20, 40, 17, 34,
     1, 2, 4, 8, 16, 32,
     END_OF_INTERLEAVE_SETS >>

EFI_SUCCESS == "EFI_SUCCESS"
EFI_INVALID_PARAMETER == "EFI_INVALID_PARAMETER"
EFI_ABORTED == "EFI_ABORTED"
EFI_BAD_BUFFER_SIZE == "EFI_BAD_BUFFER_SIZE"
EFI_OUT_OF_RESOURCES == "EFI_OUT_OF_RESOURCES"

NULL == "NULL"

\* ------------------------------------------------------- UINT64 arithmetic
LimbBase == 65536
NumLimbs == 4

RECURSIVE MulLimbs(_, _, _, _)
\* limbs i..NumLimbs of x * m, carry c coming in; the carry out of the top
\* limb is dropped (product modulo 2^64)
MulLimbs(x, m, i, c) ==
  IF i > NumLimbs THEN << >>
  ELSE LET t == x[i] * m + c
       IN  << t % LimbBase >> \o MulLimbs(x, m, i + 1, t \div LimbBase)

\* UINT64 x * UINT32 m as the C expression InterleaveSetSize * DimmsUsed
Mul64(x, m) == MulLimbs(x, m, 1, 0)

RECURSIVE DivLimbs(_, _, _, _)
\* long division of limbs i..1 of x by d, remainder r coming in from above;
\* the result lists the quotient limbs most significant first
DivLimbs(x, d, i, r) ==
  IF i = 0 THEN << >>
  ELSE LET t == r * LimbBase + x[i]
       IN  << t \div d >> \o DivLimbs(x, d, i - 1, t % d)

Reverse(s) == [ i \in 1..Len(s) |-> s[Len(s) + 1 - i] ]

\* UINT64 x / UINT32 d, truncating
Div64(x, d) == Reverse(DivLimbs(x, d, NumLimbs, 0))

Zero64 == << 0, 0, 0, 0 >>

\* ------------------------------------------------------------------- DIMMs
\* the fields of DIMM read by this file
DIMM == [ ImcId : 0..MaxImcId, ChannelId : 0..MaxChannelId ]

\* DIMM_LOCATION without the modulo on the channel
DIMM_LOCATION_NoModulo(iMC, channel) == 2 * channel + iMC

DIMM_LOCATION(iMC, channel) == 2 * (channel % CHANNELS_PER_IMC) + iMC

\* 0x1 << n, for the shift counts below 31
Pow2(n) ==
  << 1, 2, 4, 8, 16, 32, 64, 128, 256, 512, 1024, 2048, 4096, 8192, 16384,
     32768, 65536, 131072, 262144, 524288, 1048576, 2097152, 4194304,
     8388608, 16777216, 33554432, 67108864, 134217728, 268435456,
     536870912, 1073741824 >>[n + 1]

DIMM_POPULATED(map, dimmIndex) == (map \div Pow2(dimmIndex)) % 2

\* a CLEAR_DIMM that clears nothing
CLEAR_DIMM_Nothing(map, dimmIndex) == map

\* the value of map after  map &= ~(0x1 << dimmIndex)
CLEAR_DIMM(map, dimmIndex) ==
  IF DIMM_POPULATED(map, dimmIndex) = 1 THEN map - Pow2(dimmIndex) ELSE map

\* array[index] = value on an array whose written part is the sequence
Store(array, index, value) ==
  IF index + 1 <= Len(array)
  THEN [ array EXCEPT ![index + 1] = value ]
  ELSE Append(array, value)

\* -------------------------------------------------------- List Maintenance
\* the search loop with a comparison that never succeeds
FindIndex_NeverFound(pDimmsList, DimmsListNum, pDimm, Index) == DimmsListNum

\* the search loop keeping the last entry that compares equal
FindIndex_LastMatch(pDimmsList, DimmsListNum, pDimm, Index) ==
  LET Matches == { i \in Index..DimmsListNum - 1 : pDimm = pDimmsList[i + 1] }
  IN  IF Matches = { }
      THEN DimmsListNum
      ELSE CHOOSE i \in Matches : \A j \in Matches : j <= i

RECURSIVE FindIndex(_, _, _, _)
\* the first for loop of RemoveDimmFromList: the Index it stops at
FindIndex(pDimmsList, DimmsListNum, pDimm, Index) ==
  IF Index < DimmsListNum
  THEN IF pDimm = pDimmsList[Index + 1]
       THEN Index
       ELSE FindIndex(pDimmsList, DimmsListNum, pDimm, Index + 1)
  ELSE Index

\* RemoveDimmFromList without the shift of lines 102-104
RemoveDimmFromList_NoShift(pDimmsList, DimmsListNum, pDimm) ==
  IF FindIndex(pDimmsList, DimmsListNum, pDimm, 0) < DimmsListNum
  THEN [ List |-> pDimmsList, Num |-> DimmsListNum - 1 ]
  ELSE [ List |-> pDimmsList, Num |-> DimmsListNum ]

\* RemoveDimmFromList without the decrement of line 105
RemoveDimmFromList_NoDecrement(pDimmsList, DimmsListNum, pDimm) ==
  LET Index == FindIndex(pDimmsList, DimmsListNum, pDimm, 0)
  IN  [ List |-> [ i \in 1..Len(pDimmsList) |->
                     IF i - 1 >= Index /\ i - 1 < DimmsListNum - 1
                     THEN pDimmsList[i + 1]
                     ELSE pDimmsList[i] ],
        Num  |-> DimmsListNum ]

\* RemoveDimmFromList without the test of Found at line 101
RemoveDimmFromList_NoFoundTest(pDimmsList, DimmsListNum, pDimm) ==
  LET Index == FindIndex(pDimmsList, DimmsListNum, pDimm, 0)
  IN  [ List |-> [ i \in 1..Len(pDimmsList) |->
                     IF i - 1 >= Index /\ i - 1 < DimmsListNum - 1
                     THEN pDimmsList[i + 1]
                     ELSE pDimmsList[i] ],
        Num  |-> DimmsListNum - 1 ]

\* returns the list and its count after the call
RemoveDimmFromList(pDimmsList, DimmsListNum, pDimm) ==
  LET Index == FindIndex(pDimmsList, DimmsListNum, pDimm, 0)
      Found == Index < DimmsListNum
  IN  IF Found
      THEN [ List |-> [ i \in 1..Len(pDimmsList) |->
                          IF i - 1 >= Index /\ i - 1 < DimmsListNum - 1
                          THEN pDimmsList[i + 1]
                          ELSE pDimmsList[i] ],
             Num  |-> DimmsListNum - 1 ]
      ELSE [ List |-> pDimmsList, Num |-> DimmsListNum ]

RECURSIVE RemoveDimmArrayFrom(_, _, _, _, _)
RemoveDimmArrayFrom(pDimmsList, DimmsListNum, pDimmsArray, DimmsArrayNum, Index) ==
  IF Index < DimmsArrayNum
  THEN LET r == RemoveDimmFromList(pDimmsList, DimmsListNum, pDimmsArray[Index + 1])
       IN  RemoveDimmArrayFrom(r.List, r.Num, pDimmsArray, DimmsArrayNum, Index + 1)
  ELSE [ List |-> pDimmsList, Num |-> DimmsListNum ]

\* RemoveDimmArrayFromList with a loop that ends after pDimmsArray[0]
RemoveDimmArrayFromList_FirstOnly(pDimmsList, DimmsListNum, pDimmsArray, DimmsArrayNum) ==
  RemoveDimmArrayFrom(pDimmsList, DimmsListNum, pDimmsArray,
                      IF DimmsArrayNum > 0 THEN 1 ELSE 0, 0)

RemoveDimmArrayFromList(pDimmsList, DimmsListNum, pDimmsArray, DimmsArrayNum) ==
  RemoveDimmArrayFrom(pDimmsList, DimmsListNum, pDimmsArray, DimmsArrayNum, 0)

\* --------------------------------------------------------- Pattern Matcher
RECURSIVE MatchScan(_, _, _, _, _, _, _)
\* the for loop of GetDimmsFromListMatchingInterleaveSet from Index on
MatchScan(pDimms, DimmsNum, InterleaveMap, pDimmsInterleaved, DimmsUsed, DimmsNotFound, Index) ==
  IF Index < DimmsNum
  THEN LET DimmIndex == DIMM_LOCATION(pDimms[Index + 1].ImcId, pDimms[Index + 1].ChannelId)
       IN  IF DIMM_POPULATED(InterleaveMap, DimmIndex) = 1
           THEN MatchScan(pDimms, DimmsNum, InterleaveMap,
                          Store(pDimmsInterleaved, DimmsUsed, pDimms[Index + 1]),
                          DimmsUsed + 1, CLEAR_DIMM(DimmsNotFound, DimmIndex), Index + 1)
           ELSE MatchScan(pDimms, DimmsNum, InterleaveMap, pDimmsInterleaved,
                          DimmsUsed, DimmsNotFound, Index + 1)
  ELSE [ Interleaved |-> pDimmsInterleaved, Used |-> DimmsUsed, NotFound |-> DimmsNotFound ]

\* the matcher without the reset of lines 196-198
GetDimmsFromListMatchingInterleaveSet_NoReset(pDimms, DimmsNum, InterleaveMap, pDimmsInterleaved, DimmsUsed) ==
  LET s == MatchScan(pDimms, DimmsNum, InterleaveMap, pDimmsInterleaved, DimmsUsed,
                     InterleaveMap, 0)
  IN  [ Interleaved |-> s.Interleaved, Used |-> s.Used ]

\* returns the output array and *pDimmsUsed after the call
GetDimmsFromListMatchingInterleaveSet(pDimms, DimmsNum, InterleaveMap, pDimmsInterleaved, DimmsUsed) ==
  LET s == MatchScan(pDimms, DimmsNum, InterleaveMap, pDimmsInterleaved, DimmsUsed,
                     InterleaveMap, 0)
  IN  [ Interleaved |-> s.Interleaved,
        Used        |-> IF s.NotFound # 0 THEN 0 ELSE s.Used ]

\* ----------------------------------------------------- Best-Match Selector
\* a scan that keeps the last table entry that matches, not the first
FindBestScan_LastMatch(pDimms, DimmsNum, pDimmsInterleaved, DimmsUsed, Index) ==
  LET Try(i) == GetDimmsFromListMatchingInterleaveSet(pDimms, DimmsNum,
                  INTERLEAVE_SETS[i + 1], pDimmsInterleaved, DimmsUsed)
      Hits   == { i \in Index..(Len(INTERLEAVE_SETS) - 2) : Try(i).Used # 0 }
  IN  IF Hits = { }
      THEN [ Interleaved |-> pDimmsInterleaved, Used |-> 0,
             SetIndex |-> Len(INTERLEAVE_SETS) - 1 ]
      ELSE LET i == CHOOSE h \in Hits : \A j \in Hits : j <= h
           IN  [ Interleaved |-> Try(i).Interleaved, Used |-> Try(i).Used,
                 SetIndex |-> i + 1 ]

RECURSIVE FindBestScan(_, _, _, _, _)
\* the for loop of FindBestInterleavingForDimms from Index on; SetIndex is
\* the value of Index when the loop ends
FindBestScan(pDimms, DimmsNum, pDimmsInterleaved, DimmsUsed, Index) ==
  IF DimmsUsed = 0 /\ INTERLEAVE_SETS[Index + 1] # END_OF_INTERLEAVE_SETS
  THEN LET g == GetDimmsFromListMatchingInterleaveSet(pDimms, DimmsNum,
                   INTERLEAVE_SETS[Index + 1], pDimmsInterleaved, DimmsUsed)
       IN  FindBestScan(pDimms, DimmsNum, g.Interleaved, g.Used, Index + 1)
  ELSE [ Interleaved |-> pDimmsInterleaved, Used |-> DimmsUsed, SetIndex |-> Index ]

FindBestInterleavingForDimms(pDimms, DimmsNum, pDimmsInterleaved, DimmsUsed) ==
  LET s == FindBestScan(pDimms, DimmsNum, pDimmsInterleaved, DimmsUsed, 0)
  IN  [ Interleaved |-> s.Interleaved,
        Used        |-> s.Used,
        SetIndex    |-> s.SetIndex,
        ReturnCode  |-> IF s.Used = 0 THEN EFI_ABORTED ELSE EFI_SUCCESS ]

\* ------------------------------------------------------------------ inputs
\* the DIMMs of the model, in a fixed order
DimmUniverse ==
  [ k \in 1..((MaxImcId + 1) * (MaxChannelId + 1)) |->
      [ ImcId     |-> (k - 1) % (MaxImcId + 1),
        ChannelId |-> (k - 1) \div (MaxImcId + 1) ] ]

InUniverse(S) == [ k \in 1..Len(DimmUniverse) |-> DimmUniverse[k] \in S ]

RECURSIVE SelectFlagged(_, _, _)
SelectFlagged(s, flag, k) ==
  IF k > Len(s) THEN << >>
  ELSE (IF flag[k] THEN << s[k] >> ELSE << >>) \o SelectFlagged(s, flag, k + 1)

\* the DIMMs of S as a list without repetition
ListOf(S) == SelectFlagged(DimmUniverse, InUniverse(S), 1)

\* a DIMM on one of the 2 memory controllers and 3 channels of lines 18-26
OnBoard(d) == d.ImcId < 2 /\ d.ChannelId < CHANNELS_PER_IMC

\* the populations of the model: any DIMMs of the 2 x 3 board, and a bounded
\* number of DIMMs with other controller or channel ids
Populations ==
  { R \cup X :
      R \in SUBSET { d \in DIMM : OnBoard(d) },
      X \in { Y \in SUBSET { d \in DIMM : ~ OnBoard(d) } :
                Cardinality(Y) <= MaxExtraDimms } }

DimmLists ==
  UNION { { ListOf(S), Reverse(ListOf(S)) } :
          S \in { T \in Populations : Cardinality(T) <= MaxDimms } }

\* requested sizes: 0, 7, 2^63
InterleaveSetSizes == { Zero64, << 7, 0, 0, 0 >>, << 0, 0, 0, 32768 >> }

RequiredArgs ==
  { "pRegionGoalTemplate", "pRegionGoal", "pNewRegionsGoalNum", "pDimms",
    "pInterleaveSetIndex" }

ExistingGoal == "ExistingGoal"

\* no STATIC function of the file has been called directly
NoListCall ==
  [ Op |-> "none", pDimm |-> NULL, Array |-> << >>, ArrayNum |-> 0,
    List |-> << >>, Num |-> 0 ]

\* ------------------------------------------------------------------- state
VARIABLES
  pc,                 \* position in PerformInterleavingAndCreateGoal
  NullArg,            \* the required argument passed as NULL, or NULL for none
  pDimms,             \* IN  the list of DIMMs
  DimmsNum,           \* IN  the number of DIMMs in the list
  InterleaveSetSize,  \* IN  UINT64
  pRegionGoal,        \* IN OUT the caller's list of goals
  NewRegionsGoalNum,  \* IN OUT *pNewRegionsGoalNum
  ReturnCode,
  pDimmsCopy,
  pDimmsInterleaved,
  RemainingDimms,
  DimmsUsed,
  TotalDimmsUsed,
  Caller,             \* the caller's list of goals and count at the call
  Calls,              \* the calls made to CreateRegionGoal, in order
  Selected,           \* index in INTERLEAVE_SETS of each pattern selected, in order
  ListCall            \* the last direct call of a STATIC function of the file

vars ==
  << pc, NullArg, pDimms, DimmsNum, InterleaveSetSize, pRegionGoal,
     NewRegionsGoalNum, ReturnCode, pDimmsCopy, pDimmsInterleaved,
     RemainingDimms, DimmsUsed, TotalDimmsUsed, Caller, Calls, Selected,
     ListCall >>

inputs == << NullArg, pDimms, DimmsNum, InterleaveSetSize, Caller >>

Init ==
  /\ pc = "entry"
  /\ NullArg \in RequiredArgs \cup { NULL }
  /\ pDimms \in DimmLists
  /\ DimmsNum = Len(pDimms)
  /\ InterleaveSetSize \in InterleaveSetSizes
  /\ NewRegionsGoalNum = ExistingGoalsNum
  /\ pRegionGoal = [ i \in 1..NewRegionsGoalNum |-> ExistingGoal ]
  /\ Caller = [ pRegionGoal |-> pRegionGoal, NewRegionsGoalNum |-> NewRegionsGoalNum ]
  /\ ReturnCode = EFI_SUCCESS
  /\ pDimmsCopy = << >>
  /\ pDimmsInterleaved = << >>
  /\ RemainingDimms = DimmsNum
  /\ DimmsUsed = 0
  /\ TotalDimmsUsed = 0
  /\ Calls = << >>
  /\ Selected = << >>
  /\ ListCall = NoListCall

\* ----------------------------------------------------------------- actions
\* the condition without its test of pInterleaveSetIndex
MissingArgument_NoIndexTest == NullArg \notin { NULL, "pInterleaveSetIndex" }

\* the condition of the if at lines 291-292
MissingArgument == NullArg # NULL

\* lines 291-295
RejectNullArgument ==
  /\ pc = "entry"
  /\ MissingArgument
  /\ ReturnCode' = EFI_INVALID_PARAMETER
  /\ pc' = "done"
  /\ UNCHANGED << inputs, ListCall, pRegionGoal, NewRegionsGoalNum, pDimmsCopy,
                  pDimmsInterleaved, RemainingDimms, DimmsUsed, TotalDimmsUsed,
                  Calls, Selected >>

\* lines 297-300
ZeroSizeNoOp ==
  /\ pc = "entry"
  /\ ~ MissingArgument
  /\ InterleaveSetSize = Zero64
  /\ pc' = "done"
  /\ UNCHANGED << inputs, ListCall, pRegionGoal, NewRegionsGoalNum, ReturnCode, pDimmsCopy,
                  pDimmsInterleaved, RemainingDimms, DimmsUsed, TotalDimmsUsed,
                  Calls, Selected >>

\* lines 302-304 reached without the test of line 298
CopyDimms_NoZeroTest ==
  /\ pc = "entry"
  /\ ~ MissingArgument
  /\ pDimmsCopy' = IF DimmsNum > 0 THEN SubSeq(pDimms, 1, DimmsNum) ELSE pDimmsCopy
  /\ pc' = "loop"
  /\ UNCHANGED << inputs, ListCall, pRegionGoal, NewRegionsGoalNum, ReturnCode,
                  pDimmsInterleaved, RemainingDimms, DimmsUsed, TotalDimmsUsed,
                  Calls, Selected >>

\* lines 302-304
CopyDimms ==
  /\ pc = "entry"
  /\ ~ MissingArgument
  /\ InterleaveSetSize # Zero64
  /\ pDimmsCopy' = IF DimmsNum > 0 THEN SubSeq(pDimms, 1, DimmsNum) ELSE pDimmsCopy
  /\ pc' = "loop"
  /\ UNCHANGED << inputs, ListCall, pRegionGoal, NewRegionsGoalNum, ReturnCode,
                  pDimmsInterleaved, RemainingDimms, DimmsUsed, TotalDimmsUsed,
                  Calls, Selected >>

\* line 306, condition false
LoopExit ==
  /\ pc = "loop"
  /\ ~ (RemainingDimms > 0)
  /\ pc' = "done"
  /\ UNCHANGED << inputs, ListCall, pRegionGoal, NewRegionsGoalNum, ReturnCode, pDimmsCopy,
                  pDimmsInterleaved, RemainingDimms, DimmsUsed, TotalDimmsUsed,
                  Calls, Selected >>

\* the call of FindBestInterleavingForDimms at line 307
FindBest ==
  FindBestInterleavingForDimms(pDimmsCopy, RemainingDimms, pDimmsInterleaved, DimmsUsed)

\* lines 306-310, FindBestInterleavingForDimms fails
FindBestAborted ==
  /\ pc = "loop"
  /\ RemainingDimms > 0
  /\ LET r == FindBest
     IN  /\ r.ReturnCode # EFI_SUCCESS
         /\ ReturnCode' = r.ReturnCode
         /\ pDimmsInterleaved' = r.Interleaved
         /\ DimmsUsed' = r.Used
  /\ pc' = "done"
  /\ UNCHANGED << inputs, ListCall, pRegionGoal, NewRegionsGoalNum, pDimmsCopy,
                  RemainingDimms, TotalDimmsUsed, Calls, Selected >>

\* lines 306-310, FindBestInterleavingForDimms succeeds
FindBestMatched ==
  /\ pc = "loop"
  /\ RemainingDimms > 0
  /\ LET r == FindBest
     IN  /\ r.ReturnCode = EFI_SUCCESS
         /\ ReturnCode' = r.ReturnCode
         /\ pDimmsInterleaved' = r.Interleaved
         /\ DimmsUsed' = r.Used
         /\ Selected' = Append(Selected, r.SetIndex - 1)
  /\ pc' = "remove"
  /\ UNCHANGED << inputs, ListCall, pRegionGoal, NewRegionsGoalNum, pDimmsCopy,
                  RemainingDimms, TotalDimmsUsed, Calls >>

\* the call of RemoveDimmArrayFromList at line 312
Removed ==
  RemoveDimmArrayFromList(pDimmsCopy, RemainingDimms, pDimmsInterleaved, DimmsUsed)

\* lines 312-317
RemoveAndAccount ==
  /\ pc = "remove"
  /\ LET r == Removed
     IN  /\ pDimmsCopy' = r.List
         /\ RemainingDimms' = r.Num
  /\ TotalDimmsUsed' = TotalDimmsUsed + DimmsUsed
  /\ IF TotalDimmsUsed + DimmsUsed > DimmsNum
     THEN ReturnCode' = EFI_BAD_BUFFER_SIZE /\ pc' = "done"
     ELSE ReturnCode' = ReturnCode /\ pc' = "create"
  /\ UNCHANGED << inputs, ListCall, pRegionGoal, NewRegionsGoalNum, pDimmsInterleaved,
                  DimmsUsed, Calls, Selected >>

\* the call of CreateRegionGoal at lines 318-320: its arguments and result
CreateRegionGoalCall(result) ==
  [ Dimms    |-> SubSeq(pDimmsInterleaved, 1, DimmsUsed),
    DimmsNum |-> DimmsUsed,
    Size     |-> Div64(Mul64(InterleaveSetSize, DimmsUsed), DimmsNum),
    Result   |-> result ]

\* the goal returned by the n-th call of CreateRegionGoal
Goal(n) == "Goal" \o ToString(n)

\* lines 318-326, CreateRegionGoal returns a goal
CreateRegionGoalOk ==
  /\ pc = "create"
  /\ Calls' = Append(Calls, CreateRegionGoalCall(Goal(Len(Calls) + 1)))
  /\ pRegionGoal' = Store(pRegionGoal, NewRegionsGoalNum, Goal(Len(Calls) + 1))
  /\ NewRegionsGoalNum' = NewRegionsGoalNum + 1
  /\ DimmsUsed' = 0
  /\ pc' = "loop"
  /\ UNCHANGED << inputs, ListCall, ReturnCode, pDimmsCopy, pDimmsInterleaved,
                  RemainingDimms, TotalDimmsUsed, Selected >>

\* lines 318-324 with the count incremented before the test of line 321
CreateRegionGoalNull_Counted ==
  /\ pc = "create"
  /\ Calls' = Append(Calls, CreateRegionGoalCall(NULL))
  /\ pRegionGoal' = Store(pRegionGoal, NewRegionsGoalNum, NULL)
  /\ NewRegionsGoalNum' = NewRegionsGoalNum + 1
  /\ ReturnCode' = EFI_OUT_OF_RESOURCES
  /\ pc' = "done"
  /\ UNCHANGED << inputs, ListCall, pDimmsCopy, pDimmsInterleaved,
                  RemainingDimms, DimmsUsed, TotalDimmsUsed, Selected >>

\* lines 318-324, CreateRegionGoal returns NULL
CreateRegionGoalNull ==
  /\ pc = "create"
  /\ Calls' = Append(Calls, CreateRegionGoalCall(NULL))
  /\ pRegionGoal' = Store(pRegionGoal, NewRegionsGoalNum, NULL)
  /\ ReturnCode' = EFI_OUT_OF_RESOURCES
  /\ pc' = "done"
  /\ UNCHANGED << inputs, ListCall, NewRegionsGoalNum, pDimmsCopy, pDimmsInterleaved,
                  RemainingDimms, DimmsUsed, TotalDimmsUsed, Selected >>

Next ==
  \/ RejectNullArgument
  \/ ZeroSizeNoOp
  \/ CopyDimms
  \/ LoopExit
  \/ FindBestAborted
  \/ FindBestMatched
  \/ RemoveAndAccount
  \/ CreateRegionGoalOk
  \/ CreateRegionGoalNull

Spec == Init /\ [][Next]_vars

TypeOK ==
  /\ pc \in { "entry", "loop", "remove", "create", "done" }
  /\ RemainingDimms \in 0..DimmsNum

\* --------------------------------- List Maintenance functions on their own
\* RemoveDimmFromList and RemoveDimmArrayFromList called directly, once, on
\* a list that may hold the same DIMM more than once; the list is pDimmsCopy
\* and its count RemainingDimms. Every list a call leaves behind is itself
\* one of the lists of ListInit.

\* the DIMM objects of these calls: only their identity matters
ListDimms == { d \in DIMM : d.ChannelId = 0 }

ArraysUpTo(n) == UNION { [ 1..k -> ListDimms ] : k \in 0..n }

ListInit ==
  /\ pc = "list"
  /\ pDimmsCopy \in ArraysUpTo(MaxListLen)
  /\ RemainingDimms \in 0..Len(pDimmsCopy)
  /\ ReturnCode = EFI_SUCCESS
  /\ ListCall = NoListCall
  /\ NullArg = NULL
  /\ pDimms = << >>
  /\ DimmsNum = 0
  /\ InterleaveSetSize = Zero64
  /\ Caller = [ pRegionGoal |-> << >>, NewRegionsGoalNum |-> 0 ]
  /\ pRegionGoal = << >>
  /\ NewRegionsGoalNum = 0
  /\ pDimmsInterleaved = << >>
  /\ DimmsUsed = 0
  /\ TotalDimmsUsed = 0
  /\ Calls = << >>
  /\ Selected = << >>

ListFrame ==
  /\ pc' = "listed"
  /\ UNCHANGED << inputs, pRegionGoal, NewRegionsGoalNum, pDimmsInterleaved,
                  DimmsUsed, TotalDimmsUsed, Calls, Selected >>

\* RemoveDimmFromList(pDimmsCopy, &RemainingDimms, pDimm), pDimm not NULL
CallRemoveDimmFromList ==
  /\ pc = "list"
  /\ \E pDimm \in ListDimms :
       LET r == RemoveDimmFromList(pDimmsCopy, RemainingDimms, pDimm)
       IN  /\ pDimmsCopy' = r.List
           /\ RemainingDimms' = r.Num
           /\ ReturnCode' = EFI_SUCCESS
           /\ ListCall' = [ Op |-> "RemoveDimmFromList", pDimm |-> pDimm,
                            Array |-> << >>, ArrayNum |-> 0,
                            List |-> pDimmsCopy, Num |-> RemainingDimms ]
  /\ ListFrame

\* RemoveDimmFromList(pDimmsCopy, &RemainingDimms, NULL)
CallRemoveDimmFromListNull ==
  /\ pc = "list"
  /\ ReturnCode' = EFI_INVALID_PARAMETER
  /\ ListCall' = [ Op |-> "RemoveDimmFromList(NULL)", pDimm |-> NULL,
                   Array |-> << >>, ArrayNum |-> 0,
                   List |-> pDimmsCopy, Num |-> RemainingDimms ]
  /\ UNCHANGED << pDimmsCopy, RemainingDimms >>
  /\ ListFrame

\* RemoveDimmArrayFromList(pDimmsCopy, &RemainingDimms, pDimmsArray, DimmsArrayNum)
CallRemoveDimmArrayFromList ==
  /\ pc = "list"
  /\ \E pDimmsArray \in ArraysUpTo(MaxArrayLen) :
       \E DimmsArrayNum \in { Len(pDimmsArray) } :
         LET r == RemoveDimmArrayFromList(pDimmsCopy, RemainingDimms,
                                          pDimmsArray, DimmsArrayNum)
         IN  /\ pDimmsCopy' = r.List
             /\ RemainingDimms' = r.Num
             /\ ReturnCode' = EFI_SUCCESS
             /\ ListCall' = [ Op |-> "RemoveDimmArrayFromList", pDimm |-> NULL,
                              Array |-> pDimmsArray, ArrayNum |-> DimmsArrayNum,
                              List |-> pDimmsCopy, Num |-> RemainingDimms ]
  /\ ListFrame

\* RemoveDimmArrayFromList(pDimmsCopy, &RemainingDimms, NULL, 0)
CallRemoveDimmArrayFromListNull ==
  /\ pc = "list"
  /\ ReturnCode' = EFI_INVALID_PARAMETER
  /\ ListCall' = [ Op |-> "RemoveDimmArrayFromList(NULL)", pDimm |-> NULL,
                   Array |-> NULL, ArrayNum |-> 0,
                   List |-> pDimmsCopy, Num |-> RemainingDimms ]
  /\ UNCHANGED << pDimmsCopy, RemainingDimms >>
  /\ ListFrame

ListNext ==
  \/ CallRemoveDimmFromList
  \/ CallRemoveDimmFromListNull
  \/ CallRemoveDimmArrayFromList
  \/ CallRemoveDimmArrayFromListNull

ListSpec == ListInit /\ [][ListNext]_vars

\* ------------------------------------------ the Pattern Matcher on its own
\* GetDimmsFromListMatchingInterleaveSet called directly, once, with
\* *pDimmsUsed = 0 as FindBestInterleavingForDimms calls it, on an output
\* array that is empty or still holds the DIMMs of an earlier call

\* the maps of the calls: the patterns of the table, and two maps that name
\* the first slot outside the table
MatchMaps ==
  { INTERLEAVE_SETS[i] : i \in 1..(Len(INTERLEAVE_SETS) - 1) }
    \cup { Pow2(2 * CHANNELS_PER_IMC), Pow2(2 * CHANNELS_PER_IMC) + 1 }

MatchInit ==
  /\ pc = "match"
  /\ pDimms \in DimmLists
  /\ DimmsNum = Len(pDimms)
  /\ pDimmsInterleaved \in { << >>, pDimms }
  /\ DimmsUsed = 0
  /\ ReturnCode = EFI_SUCCESS
  /\ ListCall = NoListCall
  /\ NullArg = NULL
  /\ InterleaveSetSize = Zero64
  /\ Caller = [ pRegionGoal |-> << >>, NewRegionsGoalNum |-> 0 ]
  /\ pRegionGoal = << >>
  /\ NewRegionsGoalNum = 0
  /\ pDimmsCopy = << >>
  /\ RemainingDimms = 0
  /\ TotalDimmsUsed = 0
  /\ Calls = << >>
  /\ Selected = << >>

\* GetDimmsFromListMatchingInterleaveSet(pDimms, DimmsNum, InterleaveMap,
\*                                       pDimmsInterleaved, &DimmsUsed)
CallGetDimmsFromListMatchingInterleaveSet ==
  /\ pc = "match"
  /\ \E InterleaveMap \in MatchMaps :
       LET r == GetDimmsFromListMatchingInterleaveSet(
                  pDimms, DimmsNum, InterleaveMap, pDimmsInterleaved, DimmsUsed)
       IN  /\ pDimmsInterleaved' = r.Interleaved
           /\ DimmsUsed' = r.Used
           /\ ListCall' = [ Op |-> "GetDimmsFromListMatchingInterleaveSet",
                            InterleaveMap |-> InterleaveMap ]
  /\ pc' = "matched"
  /\ ReturnCode' = EFI_SUCCESS
  /\ UNCHANGED << inputs, pRegionGoal, NewRegionsGoalNum, pDimmsCopy,
                  RemainingDimms, TotalDimmsUsed, Calls, Selected >>

MatchNext == CallGetDimmsFromListMatchingInterleaveSet

MatchSpec == MatchInit /\ [][MatchNext]_vars

\* ------------------------------------------------- vocabulary of the claims
Range(s) == { s[i] : i \in 1..Len(s) }

Slot(d) == DIMM_LOCATION(d.ImcId, d.ChannelId)

\* the slots named by a pattern
PatternSlots(map) == { i \in 0..30 : DIMM_POPULATED(map, i) = 1 }

Patterns == { INTERLEAVE_SETS[i] : i \in 1..Len(INTERLEAVE_SETS) } \ { END_OF_INTERLEAVE_SETS }

\* the slots occupied by the DIMMs of a list
PopulatedSlots(list) == { Slot(d) : d \in Range(list) }

\* S is a union of patterns iff it is the union of the patterns it contains
IsUnionOfPatterns(S) ==
  S = UNION { PatternSlots(p) : p \in { q \in Patterns : PatternSlots(q) \subseteq S } }

\* the call has returned
Returned == pc = "done"

\* no required argument is NULL
ArgumentsPresent == NullArg = NULL

\* the call gets past lines 291-300
ValidNonZero == ArgumentsPresent /\ InterleaveSetSize # Zero64

\* CreateRegionGoal has not returned NULL
NeverNull == \A i \in 1..Len(Calls) : Calls[i].Result # NULL

\* the places (group, position) at which DIMM d was handed to CreateRegionGoal
PlacesOf(d) ==
  { << i, j >> \in (1..Len(Calls)) \X (1..MaxDimms + 1) :
      j <= Len(Calls[i].Dimms) /\ Calls[i].Dimms[j] = d }

GroupsPartitionInput ==
  /\ \A d \in Range(pDimms) : Cardinality(PlacesOf(d)) = 1
  /\ \A i \in 1..Len(Calls) : Range(Calls[i].Dimms) \subseteq Range(pDimms)
  /\ \A i \in 1..Len(Calls) : Calls[i].DimmsNum = Len(Calls[i].Dimms)

\* the caller's first n goals are the ones it passed in, followed by the
\* goals of the first calls of CreateRegionGoal, in order
OutputIsCallerPlus(n) ==
  /\ NewRegionsGoalNum = Caller.NewRegionsGoalNum + n
  /\ Len(pRegionGoal) >= NewRegionsGoalNum
  /\ \A i \in 1..Caller.NewRegionsGoalNum : pRegionGoal[i] = Caller.pRegionGoal[i]
  /\ \A i \in 1..n : pRegionGoal[Caller.NewRegionsGoalNum + i] = Goal(i)

\* ------------------------------------------------------------------ claims

\* C1: for a non-empty list whose populated slots are a union of Priority
\* Table patterns, a non-zero size and a collaborator that never returns
\* NULL, the call returns success and the groups handed to CreateRegionGoal
\* partition the input list.
C1_UnionOfPatternsPartitioned ==
  ( /\ Returned /\ ValidNonZero /\ NeverNull
    /\ DimmsNum > 0
    /\ IsUnionOfPatterns(PopulatedSlots(pDimms)) )
  => ( ReturnCode = EFI_SUCCESS /\ GroupsPartitionInput )

C1_Witness ==
  /\ Returned /\ ValidNonZero /\ NeverNull
  /\ DimmsNum >= 4
  /\ IsUnionOfPatterns(PopulatedSlots(pDimms))
  /\ Len(Calls) >= 2
  /\ ReturnCode = EFI_SUCCESS

\* C2 as stated: a population whose slots are not made of Priority Table
\* entries fails with Aborted and no goal is created.
C2_Original ==
  ( /\ Returned /\ ValidNonZero /\ NeverNull
    /\ DimmsNum > 0
    /\ ~ IsUnionOfPatterns(PopulatedSlots(pDimms)) )
  => ( /\ ReturnCode = EFI_ABORTED
       /\ Calls = << >>
       /\ NewRegionsGoalNum = Caller.NewRegionsGoalNum )

\* a DIMM in one of the six slots of the board of lines 18-26
Named(d) == Slot(d) < 2 * CHANNELS_PER_IMC

\* the DIMMs handed to CreateRegionGoal are exactly those of D, once each
GroupsPartition(D) ==
  /\ \A d \in D : Cardinality(PlacesOf(d)) = 1
  /\ \A i \in 1..Len(Calls) : Range(Calls[i].Dimms) \subseteq D

\* C2 (amended): with all arguments present, a non-zero size and a
\* collaborator that never returns NULL, a non-empty population fails with
\* Aborted exactly when some DIMM occupies a slot outside the six slots of
\* the table; before failing, one goal has been created and appended for
\* each group formed from the DIMMs inside the six slots, so that no goal is
\* created only when no DIMM is inside them.
C2_AbortedIffUnnamedSlot ==
  ( Returned /\ ValidNonZero /\ NeverNull /\ DimmsNum > 0 )
  => ( /\ ReturnCode = EFI_ABORTED <=> (\E d \in Range(pDimms) : ~ Named(d))
       /\ ReturnCode = EFI_ABORTED =>
            /\ GroupsPartition({ d \in Range(pDimms) : Named(d) })
            /\ OutputIsCallerPlus(Len(Calls))
            /\ Calls = << >> <=> (\A d \in Range(pDimms) : ~ Named(d)) )

C2_Witness ==
  /\ Returned /\ ValidNonZero /\ NeverNull
  /\ ReturnCode = EFI_ABORTED
  /\ Len(Calls) >= 2
  /\ NewRegionsGoalNum = Caller.NewRegionsGoalNum + Len(Calls)

RECURSIVE SumDimmsNum(_)
SumDimmsNum(calls) ==
  IF calls = << >> THEN 0 ELSE Head(calls).DimmsNum + SumDimmsNum(Tail(calls))

\* C3: in the loop, once the matched DIMMs are removed and counted,
\* RemainingDimms + TotalDimmsUsed is the original DimmsNum; the total never
\* exceeds DimmsNum, the EFI_BAD_BUFFER_SIZE exit is never taken, and when the
\* loop ends with success the group sizes add up to DimmsNum.
C3_Accounting ==
  /\ pc \in { "loop", "create" } => RemainingDimms + TotalDimmsUsed = DimmsNum
  /\ TotalDimmsUsed <= DimmsNum
  /\ ReturnCode # EFI_BAD_BUFFER_SIZE
  /\ ( Returned /\ ValidNonZero /\ ReturnCode = EFI_SUCCESS )
       => SumDimmsNum(Calls) = DimmsNum

C3_Witness ==
  /\ pc = "create"
  /\ Len(Calls) >= 1
  /\ RemainingDimms >= 1
  /\ TotalDimmsUsed >= 3
  /\ RemainingDimms + TotalDimmsUsed = DimmsNum

\* exact arithmetic on numbers of NumLimbs + 1 limbs, wide enough for the
\* sums of the claims
Widen(x) == x \o << 0 >>
Small(n) == << n, 0, 0, 0, 0 >>

RECURSIVE AddLimbs(_, _, _, _)
AddLimbs(x, y, i, c) ==
  IF i > Len(x) THEN << >>
  ELSE LET t == x[i] + y[i] + c
       IN  << t % LimbBase >> \o AddLimbs(x, y, i + 1, t \div LimbBase)

Add(x, y) == AddLimbs(x, y, 1, 0)

RECURSIVE LeqLimbs(_, _, _)
LeqLimbs(x, y, i) ==
  IF i = 0 THEN TRUE
  ELSE IF x[i] # y[i] THEN x[i] < y[i]
  ELSE LeqLimbs(x, y, i - 1)

Leq(x, y) == LeqLimbs(x, y, Len(x))

RECURSIVE SumSizes(_)
SumSizes(calls) ==
  IF calls = << >> THEN Small(0)
  ELSE Add(Widen(Head(calls).Size), SumSizes(Tail(calls)))

\* C4: the capacity shares passed to CreateRegionGoal add up to at most the
\* requested size, and on success fall short of it by at most (number of
\* groups - 1).
C4_SharesWithinShortfall ==
  ( ValidNonZero /\ Len(Calls) >= 1 )
  => ( /\ Leq(SumSizes(Calls), Widen(InterleaveSetSize))
       /\ ( Returned /\ ReturnCode = EFI_SUCCESS )
            => Leq(Widen(InterleaveSetSize),
                   Add(SumSizes(Calls), Small(Len(Calls) - 1))) )

\* the part of C4 that holds at every width: the shares never add up to
\* more than the requested size
C4_SharesAtMostRequested ==
  Leq(SumSizes(Calls), Widen(InterleaveSetSize))

\* C5: with all arguments present and a zero size the call returns success,
\* CreateRegionGoal is never called, and the caller's list and count are as
\* they were, whatever the population.
C5_ZeroSizeNoOp ==
  ( ArgumentsPresent /\ InterleaveSetSize = Zero64 )
  => ( /\ Calls = << >>
       /\ pRegionGoal = Caller.pRegionGoal
       /\ NewRegionsGoalNum = Caller.NewRegionsGoalNum
       /\ Returned => ReturnCode = EFI_SUCCESS )

C5_Witness ==
  /\ Returned
  /\ ArgumentsPresent /\ InterleaveSetSize = Zero64
  /\ DimmsNum >= 2
  /\ \E d \in Range(pDimms) : ~ Named(d)
  /\ Caller.NewRegionsGoalNum > 0
  /\ ReturnCode = EFI_SUCCESS

\* the loop iterations begun so far
Iterations == Len(Selected) + IF ReturnCode = EFI_ABORTED THEN 1 ELSE 0

\* a bound on the steps left before the call returns
StepsLeft ==
  CASE pc = "entry"  -> 3 * DimmsNum + 3
    [] pc = "loop"   -> 3 * RemainingDimms + 2
    [] pc = "remove" -> 3 * RemainingDimms + 1
    [] pc = "create" -> 3 * RemainingDimms + 3
    [] pc = "done"   -> 0

\* C6: every call returns: every step of the call brings the return nearer
\* (StepsLeft, never negative, decreases); an iteration that does not exit
\* with a failure removes at least one DIMM, so RemainingDimms strictly
\* decreases from one iteration to the next, and the loop runs at most
\* DimmsNum times.
C6_Terminates ==
  /\ [][ StepsLeft' < StepsLeft /\ StepsLeft' >= 0 ]_vars
  /\ [][ pc = "remove" /\ pc' = "create" => RemainingDimms' < RemainingDimms ]_vars
  /\ [][ RemainingDimms' <= RemainingDimms ]_vars
  /\ [](Iterations <= DimmsNum)

C6_Witness ==
  /\ Returned
  /\ DimmsNum >= 2
  /\ Iterations = DimmsNum
  /\ RemainingDimms = 0

\* C7: when CreateRegionGoal returns NULL for the k-th group the call returns
\* EFI_OUT_OF_RESOURCES at once: the count has grown by k-1, the k-1 goals
\* appended before are in place, and CreateRegionGoal is not called again.
C7_NullStopsWithoutRollback ==
  \A k \in 1..Len(Calls) :
    Calls[k].Result = NULL
    => ( /\ Returned
         /\ ReturnCode = EFI_OUT_OF_RESOURCES
         /\ k = Len(Calls)
         /\ OutputIsCallerPlus(k - 1) )

C7_Witness ==
  /\ Returned
  /\ Len(Calls) >= 2
  /\ Calls[Len(Calls)].Result = NULL
  /\ RemainingDimms > 0
  /\ Caller.NewRegionsGoalNum > 0

\* C8: with a required argument missing the call returns
\* EFI_INVALID_PARAMETER and does nothing else, also when the size is zero.
C8_MissingArgumentRejected ==
  ~ ArgumentsPresent
  => ( /\ Calls = << >>
       /\ pRegionGoal = Caller.pRegionGoal
       /\ NewRegionsGoalNum = Caller.NewRegionsGoalNum
       /\ pDimmsCopy = << >>
       /\ Returned => ReturnCode = EFI_INVALID_PARAMETER )

C8_Witness ==
  /\ Returned
  /\ NullArg = "pInterleaveSetIndex"
  /\ InterleaveSetSize = Zero64
  /\ DimmsNum > 0
  /\ ReturnCode = EFI_INVALID_PARAMETER

\* six DIMMs, one in each of the six slots
FullyPopulated ==
  /\ DimmsNum = 2 * CHANNELS_PER_IMC
  /\ PopulatedSlots(pDimms) = 0..(2 * CHANNELS_PER_IMC - 1)

\* C9: six DIMMs occupying the six slots are matched by the 6-way pattern
\* 0x3F, the first of the table, and form one group of six in one iteration:
\* one call of CreateRegionGoal, the count incremented once.
C9_SixWayFirst ==
  ( ValidNonZero /\ FullyPopulated )
  => ( /\ Iterations <= 1
       /\ Len(Calls) <= 1
       /\ \A i \in 1..Len(Selected) :
            Selected[i] = 0 /\ INTERLEAVE_SETS[Selected[i] + 1] = 63
       /\ \A i \in 1..Len(Calls) :
            Calls[i].Dimms = pDimms /\ Calls[i].DimmsNum = 6
       /\ ( Returned /\ NeverNull )
            => ( /\ ReturnCode = EFI_SUCCESS
                 /\ Len(Calls) = 1
                 /\ OutputIsCallerPlus(1) ) )

C9_Witness ==
  /\ Returned /\ ValidNonZero /\ NeverNull
  /\ FullyPopulated
  /\ Len(Calls) = 1
  /\ Selected = << 0 >>

\* the DIMM of controller 0, channel 0
DimmAtSlot0 == [ ImcId |-> 0, ChannelId |-> 0 ]

\* the number of slots named by a pattern
RECURSIVE Width(_)
Width(map) == IF map = 0 THEN 0 ELSE (map % 2) + Width(map \div 2)

\* C10: for the single DIMM of slot 0 no pattern wider than 1-way matches,
\* the pattern selected is the 1-way pattern 0x01, and there is one group,
\* of size one.
C10_SingleDimmOneWay ==
  ( ValidNonZero /\ pDimms = << DimmAtSlot0 >> )
  => ( /\ \A i \in 1..(Len(INTERLEAVE_SETS) - 1) :
            Width(INTERLEAVE_SETS[i]) > 1
            => GetDimmsFromListMatchingInterleaveSet(pDimms, DimmsNum,
                  INTERLEAVE_SETS[i], << >>, 0).Used = 0
       /\ Len(Selected) <= 1
       /\ \A i \in 1..Len(Selected) : INTERLEAVE_SETS[Selected[i] + 1] = 1
       /\ \A i \in 1..Len(Calls) :
            Calls[i].Dimms = << DimmAtSlot0 >> /\ Calls[i].DimmsNum = 1
       /\ ( Returned /\ NeverNull )
            => ( ReturnCode = EFI_SUCCESS /\ Len(Calls) = 1 ) )

C10_Witness ==
  /\ Returned /\ ValidNonZero /\ NeverNull
  /\ pDimms = << DimmAtSlot0 >>
  /\ Len(Calls) = 1
  /\ Selected = << 15 >>

\* ------------------------------------------------------------------- C11
\* the first n entries of an array: the list it holds
Live(array, n) == SubSeq(array, 1, n)

\* the last direct call was RemoveDimmFromList with a DIMM, not NULL
RemovedOne == ListCall.Op = "RemoveDimmFromList"

\* the DIMM of that call was among the entries of the list it was given
WasPresent == ListCall.pDimm \in Range(Live(ListCall.List, ListCall.Num))

\* C11: RemoveDimmFromList called with a DIMM that is not in the list changes
\* no entry of the array and not the count, and returns EFI_SUCCESS
C11_AbsentDimmNoOp ==
  (RemovedOne /\ ~ WasPresent) =>
    /\ pDimmsCopy = ListCall.List
    /\ RemainingDimms = ListCall.Num
    /\ ReturnCode = EFI_SUCCESS

\* a DIMM that is not in a list of two other entries was asked to be removed
C11_Witness ==
  /\ RemovedOne
  /\ ~ WasPresent
  /\ ListCall.Num >= 2
  /\ RemainingDimms = ListCall.Num

\* ------------------------------------------------------------------- C14
\* seq without the first of its entries that is d; seq when it has none
WithoutFirst(seq, d) ==
  IF d \in Range(seq)
  THEN LET k == CHOOSE i \in 1..Len(seq) :
                  seq[i] = d /\ \A j \in 1..(i - 1) : seq[j] # d
       IN  SubSeq(seq, 1, k - 1) \o SubSeq(seq, k + 1, Len(seq))
  ELSE seq

RECURSIVE WithoutEach(_, _)
\* seq after WithoutFirst for each entry of array, first entry first
WithoutEach(seq, array) ==
  IF array = << >>
  THEN seq
  ELSE WithoutEach(WithoutFirst(seq, Head(array)), Tail(array))

\* the last direct call was RemoveDimmArrayFromList with an array, not NULL
RemovedArray == ListCall.Op = "RemoveDimmArrayFromList"

\* how many entries of seq are d
Occurrences(seq, d) == Cardinality({ i \in 1..Len(seq) : seq[i] = d })

\* C14: RemoveDimmFromList called with a DIMM that is in the list takes out
\* the first entry that is this very DIMM and no other, the count goes down
\* by one and the other entries keep their order; RemoveDimmArrayFromList
\* does this once for each entry of its array, in array order
C14_RemovesFirstIdentical ==
  /\ (RemovedOne /\ WasPresent) =>
       /\ RemainingDimms = ListCall.Num - 1
       /\ Live(pDimmsCopy, RemainingDimms)
            = WithoutFirst(Live(ListCall.List, ListCall.Num), ListCall.pDimm)
       /\ ReturnCode = EFI_SUCCESS
  /\ RemovedArray =>
       /\ Live(pDimmsCopy, RemainingDimms)
            = WithoutEach(Live(ListCall.List, ListCall.Num),
                          Live(ListCall.Array, ListCall.ArrayNum))
       /\ RemainingDimms <= ListCall.Num
       /\ ReturnCode = EFI_SUCCESS

\* a DIMM held twice, with another DIMM between the two, was removed once
C14_Witness ==
  /\ RemovedOne
  /\ ListCall.Num = 3
  /\ ListCall.List[1] = ListCall.pDimm
  /\ ListCall.List[2] # ListCall.pDimm
  /\ ListCall.List[3] = ListCall.pDimm
  /\ RemainingDimms = 2
  /\ Live(pDimmsCopy, 2) = << ListCall.List[2], ListCall.List[3] >>

\* ------------------------------------------------------------------- C12
\* the matcher has returned from a direct call
Matched == pc = "matched"

\* every slot named by the map holds some DIMM of the list
AllSlotsOccupied(map, list) == PatternSlots(map) \subseteq PopulatedSlots(list)

\* the entries of the list whose slot the map names, in list order
InPattern(map, list) ==
  LET Test(d) == Slot(d) \in PatternSlots(map) IN SelectSeq(list, Test)

\* C12: called with *pDimmsUsed = 0 the matcher returns a non-zero count iff
\* every slot named by the pattern is occupied by a DIMM of the list; then
\* the returned DIMMs are the list entries whose slot the pattern names, all
\* of them and no other, in list order; otherwise the returned count is 0
C12_MatcherAllOrNothing ==
  Matched =>
    LET map  == ListCall.InterleaveMap
        list == Live(pDimms, DimmsNum)
    IN  /\ DimmsUsed # 0 <=> AllSlotsOccupied(map, list)
        /\ DimmsUsed # 0 => Live(pDimmsInterleaved, DimmsUsed) = InPattern(map, list)
        /\ ~ AllSlotsOccupied(map, list) => DimmsUsed = 0

\* a 2-way pattern matched three DIMMs, two of them sharing a slot, next to
\* a DIMM of another slot that was left out
C12_Witness ==
  /\ Matched
  /\ Width(ListCall.InterleaveMap) = 2
  /\ DimmsUsed = 3
  /\ DimmsNum > 3

\* a pattern with one of its slots empty and another occupied gave nothing
C12_WitnessFailure ==
  /\ Matched
  /\ DimmsUsed = 0
  /\ PatternSlots(ListCall.InterleaveMap) \cap PopulatedSlots(pDimms) # { }
  /\ ~ AllSlotsOccupied(ListCall.InterleaveMap, pDimms)

\* ------------------------------------------------------------------- C13
\* the selector has just returned a group: line 312 is next
GroupFound == pc = "remove"

\* the working list the selector was given
WorkingList == Live(pDimmsCopy, RemainingDimms)

\* the table entry at a 0-based index
TableEntry(i) == INTERLEAVE_SETS[i + 1]

\* the 0-based indices of the patterns of the table
TableIndices == 0..(Len(INTERLEAVE_SETS) - 2)

\* the 0-based table index of the pattern selected last
LastSelected == Selected[Len(Selected)]

\* C13: the selector returns the DIMMs matched by the first table entry, in
\* table order, whose slots are all occupied in the working list: no earlier
\* entry has all its slots occupied, and no entry that has is wider than the
\* one selected
C13_FirstSatisfiedEntry ==
  GroupFound =>
    /\ AllSlotsOccupied(TableEntry(LastSelected), WorkingList)
    /\ \A j \in TableIndices :
         j < LastSelected => ~ AllSlotsOccupied(TableEntry(j), WorkingList)
    /\ Live(pDimmsInterleaved, DimmsUsed)
         = InPattern(TableEntry(LastSelected), WorkingList)
    /\ \A j \in TableIndices :
         AllSlotsOccupied(TableEntry(j), WorkingList)
         => Width(TableEntry(j)) <= Width(TableEntry(LastSelected))

\* a 2-way entry was selected from a working list in which a later 2-way
\* entry and several 1-way entries have all their slots occupied too
C13_Witness ==
  /\ GroupFound
  /\ Width(TableEntry(LastSelected)) = 2
  /\ \E j \in TableIndices :
       /\ j > LastSelected
       /\ Width(TableEntry(j)) = 2
       /\ AllSlotsOccupied(TableEntry(j), WorkingList)

\* ------------------------------------------------------------------- C15
\* the slots of the table of lines 18-26
TableSlots == 0..(2 * CHANNELS_PER_IMC - 1)

\* the DIMMs the matcher computed a slot index for in the direct call
Encoded == Range(Live(pDimms, DimmsNum))

\* C15 as stated: for every controller id and channel id the slot index is
\* 2 * (channel mod 3) + controller and lies in [0, 6)
C15_Original ==
  Matched =>
    \A d \in Encoded :
      /\ Slot(d) = 2 * (d.ChannelId % 3) + d.ImcId
      /\ Slot(d) \in TableSlots

\* C15: for every controller id and channel id the slot index is
\* 2 * (channel mod 3) + controller; it lies between the controller id and
\* the controller id plus 4, hence in [0, 6) when the controller id is 0 or 1
C15_SlotInRangeOnTwoControllers ==
  Matched =>
    \A d \in Encoded :
      /\ Slot(d) = 2 * (d.ChannelId % 3) + d.ImcId
      /\ Slot(d) \in d.ImcId..(d.ImcId + 4)
      /\ d.ImcId \in { 0, 1 } => Slot(d) \in TableSlots

\* a DIMM of controller 1 with a channel id of 3 or more was taken for a
\* 1-way pattern of the table
C15_Witness ==
  /\ Matched
  /\ DimmsUsed = 1
  /\ Width(ListCall.InterleaveMap) = 1
  /\ pDimmsInterleaved[1].ImcId = 1
  /\ pDimmsInterleaved[1].ChannelId >= CHANNELS_PER_IMC
  /\ Slot(pDimmsInterleaved[1]) \in TableSlots

\* ------------------------------------------------------------------- C16
\* every DIMM of the input list is on memory controller 0 or 1
TwoControllers == \A d \in Range(pDimms) : d.ImcId \in { 0, 1 }

\* C16: when every DIMM of the list has controller id 0 or 1, the selector
\* never returns EFI_ABORTED on a non-empty working list, and
\* PerformInterleavingAndCreateGoal fails with EFI_INVALID_PARAMETER or
\* EFI_OUT_OF_RESOURCES only
C16_NoAbortOnTwoControllers ==
  TwoControllers =>
    /\ ReturnCode \in { EFI_SUCCESS, EFI_INVALID_PARAMETER, EFI_OUT_OF_RESOURCES }
    /\ (pc = "loop" /\ RemainingDimms > 0) =>
         FindBestInterleavingForDimms(pDimmsCopy, RemainingDimms,
                                      pDimmsInterleaved, DimmsUsed).ReturnCode
           = EFI_SUCCESS

\* a list on two controllers with a channel id above 2 was grouped down to
\* the last 1-way entry of the table
C16_Witness ==
  /\ TwoControllers
  /\ Returned
  /\ ReturnCode = EFI_SUCCESS
  /\ \E d \in Range(pDimms) : d.ChannelId >= CHANNELS_PER_IMC
  /\ Len(Selected) >= 2
  /\ TableEntry(LastSelected) = 32

\* ------------------------------------------------------------------- C17
\* C17: within one call of PerformInterleavingAndCreateGoal every pattern
\* selected has a greater table index than the pattern selected before it,
\* and is not wider
C17_SelectionDescendsTable ==
  \A i \in 1..(Len(Selected) - 1) :
    /\ Selected[i] < Selected[i + 1]
    /\ Width(TableEntry(Selected[i])) >= Width(TableEntry(Selected[i + 1]))

\* three groups were formed, from a 2-way entry and then two 1-way entries
C17_Witness ==
  /\ Returned
  /\ Len(Selected) = 3
  /\ Width(TableEntry(Selected[1])) = 2
  /\ Width(TableEntry(Selected[2])) = 1
  /\ Width(TableEntry(Selected[3])) = 1

\* ------------------------------------------------------------------- C18
\* no two DIMMs of the input list have the same slot index
DistinctSlots ==
  \A i, j \in 1..DimmsNum : i # j => Slot(pDimms[i]) # Slot(pDimms[j])

\* the DIMMs of a group that are in a slot
InSlot(group, slot) == { j \in 1..Len(group) : Slot(group[j]) = slot }

\* C18: when no two DIMMs of the input list share a slot index, every group
\* passed to CreateRegionGoal holds one DIMM for each slot named by the
\* pattern selected for it and no other DIMM, so its size is the number of
\* bits set in the pattern, which is 1, 2, 3, 4 or 6
C18_OneDimmPerNamedSlot ==
  DistinctSlots =>
    \A i \in 1..Len(Calls) :
      LET pattern == TableEntry(Selected[i])
          group   == Live(Calls[i].Dimms, Calls[i].DimmsNum)
      IN  /\ \A slot \in PatternSlots(pattern) :
               Cardinality(InSlot(group, slot)) = 1
          /\ \A j \in 1..Len(group) : Slot(group[j]) \in PatternSlots(pattern)
          /\ Calls[i].DimmsNum = Width(pattern)
          /\ Calls[i].DimmsNum \in { 1, 2, 3, 4, 6 }

\* five DIMMs in five slots were passed on as a group of four and a group
\* of one
C18_Witness ==
  /\ DistinctSlots
  /\ Returned
  /\ DimmsNum = 5
  /\ Len(Calls) = 2
  /\ Calls[1].DimmsNum = 4
  /\ Calls[2].DimmsNum = 1
====
